---------------------------- MODULE Spec2Model ----------------------------
(***************************************************************************)
(* Model of conditional.go: evaluation of the HTTP/1.1 conditional request *)
(* headers (RFC 7232) of one request against one resource.                 *)
(*                                                                         *)
(* One behaviour is one call of Conditional(c, resource).  The call is cut *)
(* at the three top-level statements of the function body (lines 59-73,    *)
(* 75-95 and 97-104); each of them queries the resource at most once.      *)
(* Under Spec the resource does not change during the call; under SpecConc *)
(* another request may replace the resource's entity tag between two       *)
(* statements of the call.                                                 *)
(*                                                                         *)
(* Time is counted in ticks; an HTTP-date has a resolution of one second   *)
(* (TicksPerSecond ticks) while LastModified() and time.Now() can be any   *)
(* tick.  Etag() follows the Go convention of returning the zero string    *)
(* together with a non-nil error.                                          *)
(***************************************************************************)
EXTENDS Integers, Sequences, FiniteSets, TLC

VARIABLES request, resource, now, pc, verdict, calls, seen, writes

vars == <<request, resource, now, pc, verdict, calls, seen, writes>>

---------------------------------------------------------------------------
(* Bounds *)

\* HTTP-dates a client can send denote the seconds 0..MaxSecond
MaxSecond == 1
\* resolution of time.Time relative to the resolution of an HTTP-date
TicksPerSecond == 2
\* number of times the concurrent writer replaces the entity during a call
MaxWrites == 1

---------------------------------------------------------------------------
(* Constants of the program *)

Get  == "GET"
\* Head in the source; the name is taken by Sequences
HeadMethod == "HEAD"

StatusNotModified == 304
StatusPreconditionFailed == 412
\* no status written to the response (AbortWithStatus not called)
NoStatus == 0

NoError          == "nil"
ErrNoResource    == "ErrNoResource"
ErrWasModified   == "ErrWasModified"
ErrRangeMismatch == "ErrRangeMismatch"
\* any error of Etag() other than ErrNoResource
ErrOther         == "ErrOther"

---------------------------------------------------------------------------
(* Inputs *)

Methods == {Get, HeadMethod, "PUT"}

Etags == {"E1", "E2"}

\* value of If-Match / If-None-Match; "" is what Header.Get gives for an
\* absent header
EtagHeaders == {"", "*"} \cup Etags

RangeValidators == {""} \cup Etags

RangeHeaders == {"", "bytes=0-9"}

\* the strings that time.Parse(http.TimeFormat, _) accepts, by second
HTTPDates ==
    << "Thu, 01 Jan 1970 00:00:00 GMT",
       "Thu, 01 Jan 1970 00:00:01 GMT",
       "Thu, 01 Jan 1970 00:00:02 GMT",
       "Thu, 01 Jan 1970 00:00:03 GMT" >>

ValidDates == {HTTPDates[i] : i \in 1..(MaxSecond + 1)}

\* a string that is not in http.TimeFormat
MalformedDates == {"1970-01-01T00:00:01Z"}

DateHeaders == {""} \cup MalformedDates \cup ValidDates

Times == 0..(MaxSecond * TicksPerSecond + 1)

\* what Etag() returns
EtagResults ==
    {[tag |-> e, err |-> NoError] : e \in Etags}
      \cup {[tag |-> "", err |-> ErrNoResource], [tag |-> "", err |-> ErrOther]}

Requests ==
    [Method : Methods,
     IfMatch : EtagHeaders,
     IfUnmodifiedSince : DateHeaders,
     IfNoneMatch : EtagHeaders,
     IfModifiedSince : DateHeaders,
     IfRange : RangeValidators,
     Range : RangeHeaders]

\* a resource implements Etagger, LastModifier, both or neither; the fields
\* of a capability it lacks are fixed (they are never read)
Resources ==
    {rs \in [canCheckEtag : BOOLEAN,
             canCheckModifier : BOOLEAN,
             etag : EtagResults,
             lastModified : Times] :
        /\ (~rs.canCheckEtag => rs.etag = [tag |-> "", err |-> ErrNoResource])
        /\ (~rs.canCheckModifier => rs.lastModified = 0)}

---------------------------------------------------------------------------
(* The resource's capabilities *)

Etag(rs) == rs.etag

LastModified(rs) == rs.lastModified

\* time.Parse(http.TimeFormat, date)
ParseTime(date) ==
    IF \E i \in 1..Len(HTTPDates) : HTTPDates[i] = date
    THEN [t |-> ((CHOOSE i \in 1..Len(HTTPDates) : HTTPDates[i] = date) - 1)
                    * TicksPerSecond,
          err |-> FALSE]
    ELSE [t |-> 0, err |-> TRUE]

---------------------------------------------------------------------------
(* The per-header predicates.  Each gives the returned bool (ret) and the  *)
(* capability calls it made (calls).                                       *)

handleIfMatch_NoWildcardCheck(rs, clientEtag) ==
    LET r == Etag(rs)
        serverEtag == r.tag
        err == r.err
    IN  [ret |-> IF err # NoError /\ err # ErrNoResource THEN FALSE
                 ELSE IF serverEtag = clientEtag \/ clientEtag = "*" THEN TRUE
                 ELSE FALSE,
         calls |-> {"handleIfMatch.Etag"}]

handleIfMatch(rs, clientEtag) ==
    LET r == Etag(rs)
        serverEtag == r.tag
        err == r.err
    IN  [ret |-> IF err # NoError /\ err # ErrNoResource THEN FALSE
                 ELSE IF clientEtag = "*" /\ err = ErrNoResource THEN FALSE
                 ELSE IF serverEtag = clientEtag \/ clientEtag = "*" THEN TRUE
                 ELSE FALSE,
         calls |-> {"handleIfMatch.Etag"}]

handleIfUnmodifiedSince(rs, date) ==
    LET p == ParseTime(date)
        clientDate == p.t
        serverDate == LastModified(rs)
    IN  IF p.err
        THEN [ret |-> FALSE, calls |-> {}]
        ELSE [ret |-> IF clientDate < serverDate THEN TRUE ELSE FALSE,
              calls |-> {"handleIfUnmodifiedSince.LastModified"}]

handleIfNoneMatch(rs, clientEtag) ==
    LET r == Etag(rs)
        serverEtag == r.tag
        err == r.err
    IN  [ret |-> IF err # NoError
                 THEN (IF clientEtag = "*" /\ err = ErrNoResource
                       THEN TRUE ELSE FALSE)
                 ELSE IF clientEtag = serverEtag THEN FALSE
                 ELSE TRUE,
         calls |-> {"handleIfNoneMatch.Etag"}]

handleIfModifiedSince(rs, date, timeNow) ==
    LET p == ParseTime(date)
        clientDate == p.t
        serverDate == LastModified(rs)
    IN  IF p.err
        THEN [ret |-> FALSE, calls |-> {}]
        ELSE [ret |-> IF clientDate > timeNow \/ clientDate < serverDate
                      THEN FALSE ELSE TRUE,
              calls |-> {"handleIfModifiedSince.LastModified"}]

handleIfRange(rs, clientEtag) == [ret |-> FALSE, calls |-> {}]

---------------------------------------------------------------------------
(* Conditional, statement by statement.  A statement either returns        *)
(* (term = TRUE, with the returned bool, the returned error, the status    *)
(* given to AbortWithStatus and the line of the return) or falls through.  *)

Return(abort, err, status, line, cs) ==
    [term |-> TRUE,
     v |-> [abort |-> abort, err |-> err, status |-> status, line |-> line],
     calls |-> cs]

NoVerdict == [abort |-> FALSE, err |-> NoError, status |-> NoStatus, line |-> 0]

FallThrough(cs) == [term |-> FALSE, v |-> NoVerdict, calls |-> cs]

\* lines 59-73 without the capability test of line 59
ConditionalMatch_NoCapabilityTest(r, rs) ==
    IF r.IfMatch # ""
    THEN LET h == handleIfMatch(rs, r.IfMatch)
         IN  IF h.ret = FALSE
             THEN Return(FALSE, ErrWasModified, NoStatus, 63, h.calls)
             ELSE FallThrough(h.calls)
    ELSE IF rs.canCheckModifier /\ r.IfUnmodifiedSince # ""
    THEN LET h == handleIfUnmodifiedSince(rs, r.IfUnmodifiedSince)
         IN  IF h.ret = FALSE
             THEN Return(FALSE, ErrWasModified, NoStatus, 70, h.calls)
             ELSE FallThrough(h.calls)
    ELSE FallThrough({})

\* lines 59-73 with an `if` in place of the `else if` of line 66
ConditionalMatch_BothHeaders(r, rs) ==
    LET m == IF rs.canCheckEtag /\ r.IfMatch # ""
             THEN handleIfMatch(rs, r.IfMatch)
             ELSE [ret |-> TRUE, calls |-> {}]
        u == IF rs.canCheckModifier /\ r.IfUnmodifiedSince # ""
             THEN handleIfUnmodifiedSince(rs, r.IfUnmodifiedSince)
             ELSE [ret |-> TRUE, calls |-> {}]
    IN  IF m.ret = FALSE
        THEN Return(FALSE, ErrWasModified, NoStatus, 63, m.calls)
        ELSE IF u.ret = FALSE
        THEN Return(FALSE, ErrWasModified, NoStatus, 70, m.calls \cup u.calls)
        ELSE FallThrough(m.calls \cup u.calls)

\* lines 59-73
ConditionalMatch(r, rs) ==
    IF rs.canCheckEtag /\ r.IfMatch # ""
    THEN LET h == handleIfMatch(rs, r.IfMatch)
         IN  IF h.ret = FALSE
             THEN Return(FALSE, ErrWasModified, NoStatus, 63, h.calls)
             ELSE FallThrough(h.calls)
    ELSE IF rs.canCheckModifier /\ r.IfUnmodifiedSince # ""
    THEN LET h == handleIfUnmodifiedSince(rs, r.IfUnmodifiedSince)
         IN  IF h.ret = FALSE
             THEN Return(FALSE, ErrWasModified, NoStatus, 70, h.calls)
             ELSE FallThrough(h.calls)
    ELSE FallThrough({})

\* lines 75-95 with the method test of line 79 reduced to GET
ConditionalNoneMatch_GetOnly(r, rs, timeNow) ==
    IF rs.canCheckEtag /\ r.IfNoneMatch # ""
    THEN LET h == handleIfNoneMatch(rs, r.IfNoneMatch)
         IN  IF h.ret = FALSE
             THEN IF r.Method = Get
                  THEN Return(TRUE, NoError, StatusNotModified, 81, h.calls)
                  ELSE Return(TRUE, NoError, StatusPreconditionFailed, 84,
                              h.calls)
             ELSE FallThrough(h.calls)
    ELSE IF r.Method # Get \/ r.Method # HeadMethod
    THEN Return(FALSE, NoError, NoStatus, 89, {})
    ELSE IF rs.canCheckModifier /\ r.IfModifiedSince # ""
    THEN LET h == handleIfModifiedSince(rs, r.IfModifiedSince, timeNow)
         IN  IF h.ret = FALSE
             THEN Return(TRUE, NoError, StatusNotModified, 93, h.calls)
             ELSE FallThrough(h.calls)
    ELSE FallThrough({})

\* lines 75-95
ConditionalNoneMatch(r, rs, timeNow) ==
    IF rs.canCheckEtag /\ r.IfNoneMatch # ""
    THEN LET h == handleIfNoneMatch(rs, r.IfNoneMatch)
         IN  IF h.ret = FALSE
             THEN IF r.Method = Get \/ r.Method = HeadMethod
                  THEN Return(TRUE, NoError, StatusNotModified, 81, h.calls)
                  ELSE Return(TRUE, NoError, StatusPreconditionFailed, 84,
                              h.calls)
             ELSE FallThrough(h.calls)
    ELSE IF r.Method # Get \/ r.Method # HeadMethod
    THEN Return(FALSE, NoError, NoStatus, 89, {})
    ELSE IF rs.canCheckModifier /\ r.IfModifiedSince # ""
    THEN LET h == handleIfModifiedSince(rs, r.IfModifiedSince, timeNow)
         IN  IF h.ret = FALSE
             THEN Return(TRUE, NoError, StatusNotModified, 93, h.calls)
             ELSE FallThrough(h.calls)
    ELSE FallThrough({})

\* lines 97-104
ConditionalRange(r, rs) ==
    IF r.Method = Get /\ r.Range # "" /\ r.IfRange # ""
    THEN LET h == handleIfRange(rs, r.IfRange)
         IN  IF h.ret = FALSE
             THEN Return(FALSE, ErrRangeMismatch, NoStatus, 100, h.calls)
             ELSE Return(FALSE, NoError, NoStatus, 104, h.calls)
    ELSE Return(FALSE, NoError, NoStatus, 104, {})

\* the whole call on a resource that does not change meanwhile
Conditional(r, rs, timeNow) ==
    LET a == ConditionalMatch(r, rs)
        b == ConditionalNoneMatch(r, rs, timeNow)
        c == ConditionalRange(r, rs)
    IN  IF a.term THEN [v |-> a.v, calls |-> a.calls]
        ELSE IF b.term THEN [v |-> b.v, calls |-> a.calls \cup b.calls]
        ELSE [v |-> c.v, calls |-> a.calls \cup b.calls \cup c.calls]

\* what the caller observes of a verdict
Observable(v) == <<v.abort, v.err, v.status>>

---------------------------------------------------------------------------
(* The state machine *)

Init ==
    /\ request \in Requests
    /\ resource \in Resources
    /\ now \in Times
    /\ resource.lastModified <= now
    /\ pc = "match"
    /\ verdict = NoVerdict
    /\ calls = {}
    /\ seen = {resource.etag}
    /\ writes = 0

Finish(step, nextpc) ==
    /\ calls' = calls \cup step.calls
    /\ IF step.term
       THEN pc' = "done" /\ verdict' = step.v
       ELSE pc' = nextpc /\ verdict' = verdict
    /\ UNCHANGED <<request, resource, now, seen, writes>>

CheckMatch ==
    /\ pc = "match"
    /\ Finish(ConditionalMatch(request, resource), "nonematch")

CheckNoneMatch ==
    /\ pc = "nonematch"
    /\ Finish(ConditionalNoneMatch(request, resource, now), "range")

CheckRange ==
    /\ pc = "range"
    /\ Finish(ConditionalRange(request, resource), "done")

\* another request replaces, creates or deletes the entity while the call
\* is between two statements
Write ==
    /\ pc # "done"
    /\ resource.canCheckEtag
    /\ writes < MaxWrites
    /\ \E e \in EtagResults :
          /\ e.err # ErrOther
          /\ e # resource.etag
          /\ resource' = [resource EXCEPT !.etag = e]
          /\ seen' = seen \cup {e}
    /\ writes' = writes + 1
    /\ UNCHANGED <<request, now, pc, verdict, calls>>

Next == CheckMatch \/ CheckNoneMatch \/ CheckRange

Spec == Init /\ [][Next]_vars

NextConc == Next \/ Write

SpecConc == Init /\ [][NextConc]_vars

TypeOK ==
    /\ request \in Requests
    /\ resource \in Resources
    /\ now \in Times
    /\ pc \in {"match", "nonematch", "range", "done"}
    /\ calls \subseteq {"handleIfMatch.Etag", "handleIfNoneMatch.Etag",
                        "handleIfUnmodifiedSince.LastModified",
                        "handleIfModifiedSince.LastModified"}
    /\ seen \subseteq EtagResults
    /\ writes \in 0..MaxWrites

---------------------------------------------------------------------------
(* Properties *)

Done == pc = "done"

SafeMethod == request.Method = Get \/ request.Method = HeadMethod

\* C1: a non-empty If-Match against a resource with etag support gives
\* ErrWasModified (and no status) when Etag() signals ErrNoResource (also
\* for `*`), fails otherwise, or the header is a concrete value other than
\* the current etag; it never gives ErrWasModified when an etag E exists
\* and the header is E or `*`.
C1_IfMatchVerdict ==
    (pc # "match" /\ resource.canCheckEtag /\ request.IfMatch # "") =>
        LET e == resource.etag
            holds == e.err = NoError /\ request.IfMatch \in {"*", e.tag}
        IN  /\ ~holds => /\ Done
                         /\ Observable(verdict)
                              = <<FALSE, ErrWasModified, NoStatus>>
            /\ holds => verdict.err # ErrWasModified

C1_Witness ==
    /\ Done
    /\ resource.canCheckEtag
    /\ request.IfMatch = "*"
    /\ resource.etag.err = ErrNoResource
    /\ verdict.err = ErrWasModified

\* C2: when If-None-Match is a concrete value equal to the current etag and
\* the match family did not reject, the call aborts with 304 and returns
\* (true, nil) for GET/HEAD and aborts with 412 and returns (true, nil) for
\* any other method; 304 is never emitted for a method other than GET/HEAD.
C2_NoneMatchEqualShortCircuits ==
    /\ (/\ Done
        /\ resource.canCheckEtag
        /\ resource.etag.err = NoError
        /\ request.IfNoneMatch = resource.etag.tag
        /\ verdict.err # ErrWasModified)
         => Observable(verdict) =
              <<TRUE, NoError,
                IF SafeMethod THEN StatusNotModified
                ELSE StatusPreconditionFailed>>
    /\ verdict.status = StatusNotModified => SafeMethod

C2_Witness ==
    /\ Done
    /\ request.Method = HeadMethod
    /\ resource.canCheckEtag
    /\ resource.etag = [tag |-> "E1", err |-> NoError]
    /\ request.IfNoneMatch = "E1"
    /\ verdict.status = StatusNotModified

\* C3: with `If-None-Match: *` on a resource with etag support (match family
\* not rejecting) evaluation continues past the none-match family if and
\* only if Etag() signals ErrNoResource, and when an entity exists it
\* short-circuits with 304 for GET/HEAD and 412 for any other method.
C3_WildcardNoneMatch ==
    (/\ Done
     /\ resource.canCheckEtag
     /\ request.IfNoneMatch = "*"
     /\ verdict.err # ErrWasModified)
      => /\ (verdict.status = NoStatus /\ ~verdict.abort)
               <=> resource.etag.err = ErrNoResource
         /\ resource.etag.err = NoError =>
               Observable(verdict) =
                 <<TRUE, NoError,
                   IF SafeMethod THEN StatusNotModified
                   ELSE StatusPreconditionFailed>>

\* C4: for GET/HEAD, If-None-Match not applicable, match family not
\* rejecting, last-modified supported and If-Modified-Since a valid date not
\* later than now: 304 if and only if the resource was not modified strictly
\* after the client's date; otherwise the call goes on to the range check.
C4_IfModifiedSince ==
    (/\ Done
     /\ SafeMethod
     /\ ~(resource.canCheckEtag /\ request.IfNoneMatch # "")
     /\ verdict.err # ErrWasModified
     /\ resource.canCheckModifier
     /\ ~ParseTime(request.IfModifiedSince).err
     /\ ParseTime(request.IfModifiedSince).t <= now)
      => LET modifiedAfter ==
                 resource.lastModified > ParseTime(request.IfModifiedSince).t
         IN  /\ ~modifiedAfter =>
                   Observable(verdict) = <<TRUE, NoError, StatusNotModified>>
             /\ modifiedAfter =>
                   /\ verdict.status # StatusNotModified
                   /\ verdict.line \in {100, 104}

\* C5: with If-Match not applicable, last-modified supported and
\* If-Unmodified-Since a valid date T, the call returns ErrWasModified if and
\* only if the resource's last-modified time is strictly after T.
C5_IfUnmodifiedSince ==
    (/\ Done
     /\ ~(resource.canCheckEtag /\ request.IfMatch # "")
     /\ resource.canCheckModifier
     /\ ~ParseTime(request.IfUnmodifiedSince).err)
      => (verdict.err = ErrWasModified
            <=> resource.lastModified > ParseTime(request.IfUnmodifiedSince).t)

\* C6: for a GET with Range and If-Range where neither the match family nor
\* the none-match family gives a verdict, the call returns ErrRangeMismatch
\* if and only if the If-Range validator differs from the current etag (or
\* the etag cannot be had); when it equals the etag the verdict is
\* (false, nil) with no status.
C6_IfRange ==
    (/\ Done
     /\ request.Method = Get
     /\ request.Range # ""
     /\ request.IfRange # ""
     /\ verdict.err # ErrWasModified
     /\ verdict.status = NoStatus)
      => LET matches == /\ resource.canCheckEtag
                        /\ resource.etag.err = NoError
                        /\ resource.etag.tag = request.IfRange
         IN  /\ verdict.err = ErrRangeMismatch <=> ~matches
             /\ matches => Observable(verdict) = <<FALSE, NoError, NoStatus>>

\* C7: when If-Unmodified-Since or If-Modified-Since is not a valid
\* HTTP-date, the verdict is the verdict of the same request without that
\* header.
C7_MalformedDateIgnored ==
    Done =>
      /\ (request.IfUnmodifiedSince # ""
            /\ ParseTime(request.IfUnmodifiedSince).err)
           => Observable(verdict) =
                Observable(Conditional(
                    [request EXCEPT !.IfUnmodifiedSince = ""],
                    resource, now).v)
      /\ (request.IfModifiedSince # ""
            /\ ParseTime(request.IfModifiedSince).err)
           => Observable(verdict) =
                Observable(Conditional(
                    [request EXCEPT !.IfModifiedSince = ""],
                    resource, now).v)

\* C8: a predicate whose capability is missing is skipped as if its header
\* were absent: without Etagger the verdict is that of the request without
\* If-Match and If-None-Match, without LastModifier that of the request
\* without If-Unmodified-Since and If-Modified-Since; Etag() and
\* LastModified() are never called on a resource that lacks them.
C8_MissingCapabilitySkipped ==
    /\ ~resource.canCheckEtag =>
          /\ calls \cap {"handleIfMatch.Etag", "handleIfNoneMatch.Etag"} = {}
          /\ Done => Observable(verdict) =
                Observable(Conditional(
                    [request EXCEPT !.IfMatch = "", !.IfNoneMatch = ""],
                    resource, now).v)
    /\ ~resource.canCheckModifier =>
          /\ calls \cap {"handleIfUnmodifiedSince.LastModified",
                         "handleIfModifiedSince.LastModified"} = {}
          /\ Done => Observable(verdict) =
                Observable(Conditional(
                    [request EXCEPT !.IfUnmodifiedSince = "",
                                    !.IfModifiedSince = ""],
                    resource, now).v)

C8_Witness ==
    /\ Done
    /\ ~resource.canCheckEtag
    /\ ~resource.canCheckModifier
    /\ request.IfMatch = "E1"
    /\ request.IfNoneMatch = "*"
    /\ request.IfUnmodifiedSince \in ValidDates
    /\ request.IfModifiedSince \in ValidDates

\* C9: whenever If-Match is present and the resource supports etags,
\* If-Unmodified-Since is not evaluated (no LastModified() call for it) and
\* has no effect on the verdict; it is evaluated only when If-Match is
\* absent or the etag capability is missing.
C9_MatchFamilyExclusive ==
    /\ (resource.canCheckEtag /\ request.IfMatch # "") =>
          /\ "handleIfUnmodifiedSince.LastModified" \notin calls
          /\ verdict.line # 70
          /\ Done => Observable(verdict) =
                Observable(Conditional(
                    [request EXCEPT !.IfUnmodifiedSince = ""],
                    resource, now).v)
    /\ ("handleIfUnmodifiedSince.LastModified" \in calls \/ verdict.line = 70)
          => (request.IfMatch = "" \/ ~resource.canCheckEtag)

C9_Witness ==
    /\ Done
    /\ resource.canCheckEtag
    /\ request.IfMatch # ""
    /\ resource.canCheckModifier
    /\ request.IfUnmodifiedSince \in ValidDates
    /\ ~handleIfUnmodifiedSince(resource, request.IfUnmodifiedSince).ret
    /\ verdict.err # ErrWasModified

\* C10: all predicates of one call observe the same etag: with a concurrent
\* writer, the verdict is the verdict the call would give on one of the
\* resource states that existed during the call.
C10_SinglePointInTime ==
    Done => \E e \in seen :
               Observable(verdict) =
                 Observable(Conditional(request,
                                        [resource EXCEPT !.etag = e],
                                        now).v)

===========================================================================
